---- MODULE Spec2Model ----
(***************************************************************************)
(* PDF Automation Tool (src/app.py): the upload area, the output area and  *)
(* the request handlers of the Flask backend, with the PDFProcessor        *)
(* methods they call.  File names are sequences of one-character strings,  *)
(* a PDF is the sequence of its pages, and every page remembers the upload *)
(* it came from.                                                           *)
(***************************************************************************)
EXTENDS Integers, Sequences, FiniteSets, TLC

VARIABLES uploads, outputs, req, clock, rt, xt

vars == <<uploads, outputs, req, clock, rt, xt>>

(* ------------------------------ bounds --------------------------------- *)
\* concurrent requests in flight
NReq == 2
\* pages of an uploaded PDF
MaxPages == 2
\* seconds the wall clock advances
MaxClock == 1
\* pages of the PDF of the split/merge round trip
MaxSplitPages == 7
\* pages-per-file counts of the split/merge round trip
MaxPerFile == 5
\* pages of the PDF whose text is extracted
MaxTextPages == 2

Procs == 1..NReq

(* --------------------------- character strings -------------------------- *)
Concat(s, t) == s \o t

RECURSIVE Flatten(_)
Flatten(ss) == IF ss = <<>> THEN <<>> ELSE Concat(Head(ss), Flatten(Tail(ss)))

LowerChar(c) ==
    CASE c = "A" -> "a"
      [] c = "B" -> "b"
      [] c = "D" -> "d"
      [] c = "F" -> "f"
      [] c = "P" -> "p"
      [] OTHER -> c

Lower(s) == [i \in 1..Len(s) |-> LowerChar(s[i])]

UpperChar(c) ==
    CASE c = "d" -> "D"
      [] c = "r" -> "R"
      [] c = "a" -> "A"
      [] c = "f" -> "F"
      [] c = "t" -> "T"
      [] OTHER -> c

Upper(s) == [i \in 1..Len(s) |-> UpperChar(s[i])]

HasDot(s) == \E i \in 1..Len(s) : s[i] = "."

LastDot(s) == CHOOSE i \in 1..Len(s) : s[i] = "." /\ \A j \in (i+1)..Len(s) : s[j] # "."

\* filename.rsplit('.', 1)[1]
RSplitExt(s) == SubSeq(s, LastDot(s) + 1, Len(s))

ALLOWED_EXTENSIONS == { <<"p", "d", "f">> }

allowed_file(filename) ==
    HasDot(filename) /\ Lower(RSplitExt(filename)) \in ALLOWED_EXTENSIONS

\* werkzeug.utils.secure_filename: path separators become blanks, the words
\* are joined with "_", characters outside [A-Za-z0-9_.-] are dropped and
\* leading and trailing "." and "_" are stripped.
SafeChars ==
    {"a", "b", "d", "f", "n", "p", "t", "x", "A", "B", "D", "F", "P", ".", "_", "-"}

ReplaceSep(s) == [i \in 1..Len(s) |-> IF s[i] = "/" THEN " " ELSE s[i]]

RECURSIVE LStrip(_, _)
LStrip(s, cs) == IF s # <<>> /\ Head(s) \in cs THEN LStrip(Tail(s), cs) ELSE s

RECURSIVE RStrip(_, _)
RStrip(s, cs) ==
    IF s # <<>> /\ s[Len(s)] \in cs THEN RStrip(SubSeq(s, 1, Len(s) - 1), cs) ELSE s

Strip(s, cs) == RStrip(LStrip(s, cs), cs)

\* "_".join(s.split())
RECURSIVE JoinBlanks(_)
JoinBlanks(s) ==
    IF s = <<>> THEN <<>>
    ELSE IF Head(s) = " "
         THEN Concat(<<"_">>, JoinBlanks(LStrip(s, {" "})))
         ELSE Concat(<<Head(s)>>, JoinBlanks(Tail(s)))

JoinWords(s) == JoinBlanks(Strip(s, {" "}))

secure_filename(filename) ==
    Strip(SelectSeq(JoinWords(ReplaceSep(filename)), LAMBDA c : c \in SafeChars),
          {".", "_"})

(* ------------------------------ constants ------------------------------ *)
\* full_text[:1000]
PreviewLimit == 1000

Min(a, b) == IF a < b THEN a ELSE b

(* ------------------------------- files ---------------------------------- *)
\* A file of either area: who wrote it, whether the PDF library can parse
\* it, its pages (a PDF) and its characters (a text file).
Page(owner, idx, no, text) ==
    [owner |-> owner, idx |-> idx, no |-> no, rot |-> 0, mark |-> <<>>, text |-> text]

File(by, ok, pages, text) == [by |-> by, ok |-> ok, pages |-> pages, text |-> text]

Exists(fs, path) == path \in DOMAIN fs

\* file.save(path) / open(path, 'wb'): creates or overwrites
Save(fs, path, file) == [p \in DOMAIN fs \cup {path} |-> IF p = path THEN file ELSE fs[p]]

\* os.remove(path)
Remove(fs, path) == [p \in DOMAIN fs \ {path} |-> fs[p]]

EmptyFs == [p \in {} |-> File(0, TRUE, <<>>, <<>>)]

(* --------------------------- artifact names ----------------------------- *)
PlainBase(word) == [word |-> word, lo |-> 0, hi |-> 0]

\* f"split_pages_{start_page+1}-{end_page}"
SplitBase(lo, hi) == [word |-> "split_pages", lo |-> lo, hi |-> hi]

\* a caller-given output name, used as it is
Verbatim(name) == [base |-> PlainBase(name), stamped |-> FALSE, stamp |-> 0, ext |-> ""]

\* f"{base_name}_{timestamp}{extension}", the timestamp having one-second
\* resolution
generate_filename(base_name, extension) ==
    [base |-> base_name, stamped |-> TRUE, stamp |-> clock, ext |-> extension]

(* ------------------------- PDFProcessor, pure parts --------------------- *)
\* merge_pdfs, first loop: the paths that exist are appended in order, the
\* others are skipped
RECURSIVE AppendExisting(_, _)
AppendExisting(fs, file_paths) ==
    IF file_paths = <<>> THEN <<>>
    ELSE IF Exists(fs, Head(file_paths))
         THEN Concat(<<fs[Head(file_paths)]>>, AppendExisting(fs, Tail(file_paths)))
         ELSE AppendExisting(fs, Tail(file_paths))

\* merger.write: the pages of the appended documents, in order
MergedPages(docs) == Flatten([i \in 1..Len(docs) |-> docs[i].pages])

\* merge_pdfs, second loop: every path that (still) exists is removed
RECURSIVE RemoveExisting(_, _)
RemoveExisting(fs, file_paths) ==
    IF file_paths = <<>> THEN fs
    ELSE RemoveExisting(IF Exists(fs, Head(file_paths)) THEN Remove(fs, Head(file_paths))
                        ELSE fs,
                        Tail(file_paths))

\* the chunk loop with the artifact named by its 0-based start page
RECURSIVE SplitFromZeroBased(_, _, _)
SplitFromZeroBased(pages, start_page, pages_per_file) ==
    IF pages_per_file < 0 \/ start_page >= Len(pages) THEN <<>>
    ELSE LET end_page == Min(start_page + pages_per_file, Len(pages))
         IN  Concat(<< [name  |-> generate_filename(SplitBase(start_page, end_page), ".pdf"),
                       pages |-> SubSeq(pages, start_page + 1, end_page)] >>,
                    SplitFromZeroBased(pages, start_page + pages_per_file, pages_per_file))

\* split_pdf, the loop over range(0, total_pages, pages_per_file), for a
\* positive or negative step: the chunks in the order they are written
RECURSIVE SplitFrom(_, _, _)
SplitFrom(pages, start_page, pages_per_file) ==
    IF pages_per_file < 0 \/ start_page >= Len(pages) THEN <<>>
    ELSE LET end_page == Min(start_page + pages_per_file, Len(pages))
         IN  Concat(<< [name  |-> generate_filename(SplitBase(start_page + 1, end_page), ".pdf"),
                       pages |-> SubSeq(pages, start_page + 1, end_page)] >>,
                    SplitFrom(pages, start_page + pages_per_file, pages_per_file))

\* the loop started at range(1, ...): the first page is never written
split_chunks_from_one(pages, pages_per_file) == SplitFrom(pages, 1, pages_per_file)

split_chunks(pages, pages_per_file) == SplitFrom(pages, 0, pages_per_file)

\* the chunks written to the output area one after the other
RECURSIVE WriteChunks(_, _, _)
WriteChunks(fs, by, chunks) ==
    IF chunks = <<>> THEN fs
    ELSE WriteChunks(Save(fs, Head(chunks).name, File(by, TRUE, Head(chunks).pages, <<>>)),
                     by, Tail(chunks))

ChunkNames(chunks) == [i \in 1..Len(chunks) |-> chunks[i].name]

\* str(n)
DigitChar(d) == <<"0", "1", "2", "3", "4", "5", "6", "7", "8", "9">>[d + 1]

RECURSIVE Str(_)
Str(n) == IF n < 10 THEN <<DigitChar(n)>> ELSE Concat(Str(n \div 10), <<DigitChar(n % 10)>>)

\* f"--- Page {page_num} ---\n{page_text}\n"
PageBlock(page_num, page_text) ==
    Flatten(<< <<"-", "-", "-", " ", "P", "a", "g", "e", " ">>, Str(page_num),
               <<" ", "-", "-", "-", "\n">>, page_text, <<"\n">> >>)

\* "\n".join(text_content)
RECURSIVE JoinLines(_)
JoinLines(blocks) ==
    IF blocks = <<>> THEN <<>>
    ELSE IF Len(blocks) = 1 THEN Head(blocks)
         ELSE Flatten(<<Head(blocks), <<"\n">>, JoinLines(Tail(blocks))>>)

full_text_of(pages) == JoinLines([i \in 1..Len(pages) |-> PageBlock(i, pages[i].text)])

\* the comparison written >= : a text of exactly 1000 characters is cut
preview_of_at_limit(full_text) ==
    IF Len(full_text) >= PreviewLimit
    THEN Concat(SubSeq(full_text, 1, PreviewLimit), <<".", ".", ".">>)
    ELSE full_text

\* full_text[:1000] + "..." if len(full_text) > 1000 else full_text
preview_of(full_text) ==
    IF Len(full_text) > PreviewLimit
    THEN Concat(SubSeq(full_text, 1, PreviewLimit), <<".", ".", ".">>)
    ELSE full_text

\* page.merge_page(watermark_page) with the upper-cased label
Watermarked(pages, watermark_text) ==
    [i \in 1..Len(pages) |-> [pages[i] EXCEPT !.mark = Upper(watermark_text)]]

\* page.rotate(angle): /Rotate grows by the angle
Rotated(pages, angle) == [i \in 1..Len(pages) |-> [pages[i] EXCEPT !.rot = @ + angle]]

\* page.rotate(angle) raises ValueError unless the angle is a multiple of 90
RotateRaises(pages, angle) == pages # <<>> /\ angle % 90 # 0

(* ------------------------------ requests -------------------------------- *)
FnA == <<"a", ".", "p", "d", "f">>
FnDirA == <<".", ".", "/", "a", ".", "p", "d", "f">>
FnB == <<"b", ".", "P", "D", "F">>
FnTxt == <<"n", ".", "t", "x", "t">>
FnNoExt == <<"a", "b">>

PdfNames == {FnA, FnDirA, FnB}
OtherNames == {FnTxt, FnNoExt}

\* an uploaded file part: the client's filename and the bytes (a PDF of n
\* pages, or bytes the PDF library cannot parse)
Part(filename, ok, n) == [filename |-> filename, ok |-> ok, n |-> n]

UploadParts ==
    {Part(f, TRUE, n) : f \in PdfNames, n \in 1..MaxPages}
      \cup {Part(f, FALSE, 0) : f \in PdfNames}
      \cup {Part(f, TRUE, 1) : f \in OtherNames}

\* request.files['file']: no part at all, or one part
FileParts == {<<>>} \cup {<<u>> : u \in UploadParts}

\* request.files.getlist('files')
MergeParts ==
    {Part(FnA, TRUE, 1), Part(FnDirA, TRUE, MaxPages), Part(FnB, TRUE, MaxPages),
     Part(FnB, FALSE, 0), Part(FnTxt, TRUE, 1)}

MergeLists == {<<>>} \cup {<<u>> : u \in MergeParts} \cup {<<u, v>> : u, v \in MergeParts}

\* the bytes of the i-th part of request r
Bytes(r, i, part) ==
    File(r, part.ok, [p \in 1..part.n |-> Page(r, i, p, <<"p", DigitChar(p)>>)], <<>>)

\* request.form: a set of <<field, value>> pairs
FormHas(form, field) == \E p \in form : p[1] = field

FormGet(form, field, default) ==
    IF FormHas(form, field) THEN (CHOOSE p \in form : p[1] = field)[2] ELSE default

Forms(field, values) == {{}} \cup {{<<field, v>>} : v \in values}

\* int(s) of a form value: the value, or ValueError
IntTable == {<<"0", 0>>, <<"2", 2>>, <<"45", 45>>}

IsInt(s) == \E p \in IntTable : p[1] = s

IntOf(s) == (CHOOSE p \in IntTable : p[1] = s)[2]

\* bool(file): a part with an empty filename is falsy
Truthy(file) == file.filename # <<>>

IdleReq ==
    [op |-> "none", pc |-> "idle", files |-> <<>>, form |-> {}, file_paths |-> <<>>,
     reader |-> <<>>, status |-> 0, error |-> "", result |-> <<>>, preview |-> <<>>,
     wrote |-> {}, vanished |-> FALSE]

\* return jsonify({'error': ...}), status
Reject(q, status, error) == [q EXCEPT !.pc = "done", !.status = status, !.error = error]

\* return jsonify({'success': True, ...})
Succeed(q, names) == [q EXCEPT !.pc = "done", !.status = 200, !.result = names]

Received(r, op, files, form) == [req[r] EXCEPT !.op = op, !.files = files, !.form = form]

Init ==
    /\ uploads = EmptyFs
    /\ outputs = EmptyFs
    /\ req = [r \in Procs |-> IdleReq]
    /\ clock = 0
    /\ rt = [pc |-> "off", original |-> <<>>, pages_per_file |-> 1, files |-> <<>>]
    /\ xt = [pc |-> "off", filename |-> Verbatim(""), preview |-> <<>>]

\* datetime.now() moves to the next second
Tick ==
    /\ clock < MaxClock
    /\ clock' = clock + 1
    /\ UNCHANGED <<uploads, outputs, req, rt, xt>>

(* ------------------------------ /api/merge ------------------------------ *)
\* the staging loop of the merge route: every part with an allowed name is
\* saved under its sanitized name, the others are passed over
RECURSIVE StageAll(_, _, _, _)
StageAll(fs, r, files, i) ==
    IF i > Len(files) THEN [fs |-> fs, file_paths |-> <<>>]
    ELSE IF Truthy(files[i]) /\ allowed_file(files[i].filename)
         THEN LET file_path == secure_filename(files[i].filename)
                  rest == StageAll(Save(fs, file_path, Bytes(r, i, files[i])), r, files, i + 1)
              IN  [fs |-> rest.fs, file_paths |-> Concat(<<file_path>>, rest.file_paths)]
         ELSE StageAll(fs, r, files, i + 1)

\* the route's answer once the staging loop has run
MergeStaged(q, file_paths) ==
    IF Len(file_paths) < 2
    THEN Reject([q EXCEPT !.file_paths = file_paths], 400, "Valid PDF files required")
    ELSE [q EXCEPT !.file_paths = file_paths, !.pc = "staged"]

merge_pdfs_route(r) ==
    /\ req[r].pc = "idle"
    /\ \E files \in MergeLists, form \in Forms("output_name", {"out.pdf"}) :
         LET q == Received(r, "merge", files, form)
             staged == StageAll(uploads, r, files, 1)
         IN  IF files = <<>>
             THEN /\ req' = [req EXCEPT ![r] = Reject(q, 400, "No files provided")]
                  /\ uploads' = uploads
             ELSE IF Len(files) < 2
                  THEN /\ req' = [req EXCEPT ![r] =
                                    Reject(q, 400, "At least 2 files required for merging")]
                       /\ uploads' = uploads
                  ELSE /\ uploads' = staged.fs
                       /\ req' = [req EXCEPT ![r] = MergeStaged(q, staged.file_paths)]
    /\ UNCHANGED <<outputs, clock, rt, xt>>

\* PDFProcessor.merge_pdfs, the appends
MergeRead(fs, q) ==
    LET docs == AppendExisting(fs, q.file_paths)
        gone == \E i \in 1..Len(q.file_paths) : ~Exists(fs, q.file_paths[i])
        seen == [q EXCEPT !.vanished = gone]
    IN  IF \E i \in 1..Len(docs) : ~docs[i].ok
        THEN Reject(seen, 500, "PdfReadError")
        ELSE [seen EXCEPT !.reader = docs, !.pc = "loaded"]

merge_pdfs_read(r) ==
    /\ req[r].pc = "staged"
    /\ req[r].op = "merge"
    /\ req' = [req EXCEPT ![r] = MergeRead(uploads, req[r])]
    /\ UNCHANGED <<uploads, outputs, clock, rt, xt>>

\* PDFProcessor.merge_pdfs, the write and the cleanup, then the route's answer
merge_pdfs_write(r) ==
    /\ req[r].pc = "loaded"
    /\ req[r].op = "merge"
    /\ LET output_name == Verbatim(FormGet(req[r].form, "output_name", "merged.pdf"))
       IN  /\ outputs' = Save(outputs, output_name,
                              File(r, TRUE, MergedPages(req[r].reader), <<>>))
           /\ uploads' = RemoveExisting(uploads, req[r].file_paths)
           /\ req' = [req EXCEPT ![r] =
                        Succeed([req[r] EXCEPT !.wrote = @ \cup {output_name}],
                                <<output_name>>)]
    /\ UNCHANGED <<clock, rt, xt>>

(* ------------------------- single-file routes --------------------------- *)
\* the extension check and the staging shared by the four single-file routes
Staged(r, q) ==
    IF ~(Truthy(q.files[1]) /\ allowed_file(q.files[1].filename))
    THEN [fs |-> uploads, q |-> Reject(q, 400, "Valid PDF file required")]
    ELSE LET file_path == secure_filename(q.files[1].filename)
         IN  [fs |-> Save(uploads, file_path, Bytes(r, 1, q.files[1])),
              q  |-> [q EXCEPT !.file_paths = <<file_path>>, !.pc = "staged"]]

\* PdfReader(pdf_path): FileNotFoundError, a parse error, or the document
ReadOne(fs, q) ==
    IF ~Exists(fs, q.file_paths[1])
    THEN Reject([q EXCEPT !.vanished = TRUE], 500, "FileNotFoundError")
    ELSE IF ~fs[q.file_paths[1]].ok
         THEN Reject(q, 500, "PdfReadError")
         ELSE [q EXCEPT !.reader = <<fs[q.file_paths[1]]>>, !.pc = "loaded"]

\* os.remove(pdf_path) closing the try block: FileNotFoundError when the
\* path is gone, else the route's success answer
Cleaned(fs, q, names) ==
    IF Exists(fs, q.file_paths[1])
    THEN [fs |-> Remove(fs, q.file_paths[1]), q |-> Succeed(q, names)]
    ELSE [fs |-> fs, q |-> Reject(q, 500, "FileNotFoundError")]

CharsOf(s) ==
    CASE s = "draft" -> <<"d", "r", "a", "f", "t">>
      [] OTHER -> <<"C", "O", "N", "F", "I", "D", "E", "N", "T", "I", "A", "L">>

(* ---------------------------- /api/watermark ---------------------------- *)
add_watermark_route(r) ==
    /\ req[r].pc = "idle"
    /\ \E files \in FileParts, form \in Forms("watermark_text", {"draft"}) :
         LET q == Received(r, "watermark", files, form)
         IN  IF files = <<>>
             THEN /\ req' = [req EXCEPT ![r] = Reject(q, 400, "No file provided")]
                  /\ uploads' = uploads
             ELSE /\ req' = [req EXCEPT ![r] = Staged(r, q).q]
                  /\ uploads' = Staged(r, q).fs
    /\ UNCHANGED <<outputs, clock, rt, xt>>

add_watermark_read(r) ==
    /\ req[r].pc = "staged"
    /\ req[r].op = "watermark"
    /\ req' = [req EXCEPT ![r] = ReadOne(uploads, req[r])]
    /\ UNCHANGED <<uploads, outputs, clock, rt, xt>>

add_watermark_write(r) ==
    /\ req[r].pc = "loaded"
    /\ req[r].op = "watermark"
    /\ LET output_name == Verbatim(FormGet(req[r].form, "output_name", "watermarked.pdf"))
           watermark_text == FormGet(req[r].form, "watermark_text", "CONFIDENTIAL")
           done == Cleaned(uploads, [req[r] EXCEPT !.wrote = @ \cup {output_name}],
                           <<output_name>>)
       IN  /\ outputs' = Save(outputs, output_name,
                              File(r, TRUE,
                                   Watermarked(req[r].reader[1].pages, CharsOf(watermark_text)),
                                   <<>>))
           /\ uploads' = done.fs
           /\ req' = [req EXCEPT ![r] = done.q]
    /\ UNCHANGED <<clock, rt, xt>>

(* ----------------------------- /api/extract ----------------------------- *)
extract_text_route(r) ==
    /\ req[r].pc = "idle"
    /\ \E files \in FileParts :
         LET q == Received(r, "extract", files, {})
         IN  IF files = <<>>
             THEN /\ req' = [req EXCEPT ![r] = Reject(q, 400, "No file provided")]
                  /\ uploads' = uploads
             ELSE /\ req' = [req EXCEPT ![r] = Staged(r, q).q]
                  /\ uploads' = Staged(r, q).fs
    /\ UNCHANGED <<outputs, clock, rt, xt>>

extract_text_read(r) ==
    /\ req[r].pc = "staged"
    /\ req[r].op = "extract"
    /\ req' = [req EXCEPT ![r] = ReadOne(uploads, req[r])]
    /\ UNCHANGED <<uploads, outputs, clock, rt, xt>>

\* PDFProcessor.extract_text from the page loop on: the text file, the
\* cleanup and the preview
ExtractWrite(fs_in, fs_out, by, q) ==
    LET full_text == full_text_of(q.reader[1].pages)
        output_filename == generate_filename(PlainBase("extracted_text"), ".txt")
        done == Cleaned(fs_in, [q EXCEPT !.wrote = @ \cup {output_filename}],
                        <<output_filename>>)
    IN  [uploads |-> done.fs,
         outputs |-> Save(fs_out, output_filename, File(by, TRUE, <<>>, full_text)),
         q       |-> IF done.q.status = 200
                     THEN [done.q EXCEPT !.preview = preview_of(full_text)]
                     ELSE done.q]

extract_text_write(r) ==
    /\ req[r].pc = "loaded"
    /\ req[r].op = "extract"
    /\ LET done == ExtractWrite(uploads, outputs, r, req[r])
       IN  /\ outputs' = done.outputs
           /\ uploads' = done.uploads
           /\ req' = [req EXCEPT ![r] = done.q]
    /\ UNCHANGED <<clock, rt, xt>>

(* ------------------------------ /api/split ------------------------------ *)
\* int(request.form.get(field, default)), evaluated before the extension
\* check: TRUE when it raises ValueError
IntRaises(form, field) == FormHas(form, field) /\ ~IsInt(FormGet(form, field, ""))

IntField(form, field, default) ==
    IF FormHas(form, field) THEN IntOf(FormGet(form, field, "")) ELSE default

split_pdf_route(r) ==
    /\ req[r].pc = "idle"
    /\ \E files \in FileParts, form \in Forms("pages_per_file", {"abc", "0", "2"}) :
         LET q == Received(r, "split", files, form)
         IN  IF files = <<>>
             THEN /\ req' = [req EXCEPT ![r] = Reject(q, 400, "No file provided")]
                  /\ uploads' = uploads
             ELSE IF IntRaises(form, "pages_per_file")
                  THEN /\ req' = [req EXCEPT ![r] = Reject(q, 500, "ValueError")]
                       /\ uploads' = uploads
                  ELSE /\ req' = [req EXCEPT ![r] = Staged(r, q).q]
                       /\ uploads' = Staged(r, q).fs
    /\ UNCHANGED <<outputs, clock, rt, xt>>

split_pdf_read(r) ==
    /\ req[r].pc = "staged"
    /\ req[r].op = "split"
    /\ req' = [req EXCEPT ![r] = ReadOne(uploads, req[r])]
    /\ UNCHANGED <<uploads, outputs, clock, rt, xt>>

\* PDFProcessor.split_pdf from the chunk loop on; range() raises ValueError
\* for a step of zero
SplitWrite(fs_in, fs_out, by, q, pages_per_file) ==
    LET chunks == split_chunks(q.reader[1].pages, pages_per_file)
        names == ChunkNames(chunks)
        done == Cleaned(fs_in,
                        [q EXCEPT !.wrote = @ \cup {names[i] : i \in 1..Len(names)}],
                        names)
    IN  IF pages_per_file = 0
        THEN [uploads |-> fs_in, outputs |-> fs_out, q |-> Reject(q, 500, "ValueError")]
        ELSE [uploads |-> done.fs, outputs |-> WriteChunks(fs_out, by, chunks), q |-> done.q]

split_pdf_write(r) ==
    /\ req[r].pc = "loaded"
    /\ req[r].op = "split"
    /\ LET done == SplitWrite(uploads, outputs, r, req[r],
                              IntField(req[r].form, "pages_per_file", 1))
       IN  /\ outputs' = done.outputs
           /\ uploads' = done.uploads
           /\ req' = [req EXCEPT ![r] = done.q]
    /\ UNCHANGED <<clock, rt, xt>>

(* ------------------------------ /api/rotate ----------------------------- *)
RotateForms ==
    {a \cup b : a \in Forms("angle", {"abc", "45"}), b \in Forms("output_name", {"out.pdf"})}

rotate_pdf_route(r) ==
    /\ req[r].pc = "idle"
    /\ \E files \in FileParts, form \in RotateForms :
         LET q == Received(r, "rotate", files, form)
         IN  IF files = <<>>
             THEN /\ req' = [req EXCEPT ![r] = Reject(q, 400, "No file provided")]
                  /\ uploads' = uploads
             ELSE IF IntRaises(form, "angle")
                  THEN /\ req' = [req EXCEPT ![r] = Reject(q, 500, "ValueError")]
                       /\ uploads' = uploads
                  ELSE /\ req' = [req EXCEPT ![r] = Staged(r, q).q]
                       /\ uploads' = Staged(r, q).fs
    /\ UNCHANGED <<outputs, clock, rt, xt>>

rotate_pdf_read(r) ==
    /\ req[r].pc = "staged"
    /\ req[r].op = "rotate"
    /\ req' = [req EXCEPT ![r] = ReadOne(uploads, req[r])]
    /\ UNCHANGED <<uploads, outputs, clock, rt, xt>>

rotate_pdf_write(r) ==
    /\ req[r].pc = "loaded"
    /\ req[r].op = "rotate"
    /\ LET angle == IntField(req[r].form, "angle", 90)
           output_name == Verbatim(FormGet(req[r].form, "output_name", "rotated.pdf"))
           done == Cleaned(uploads, [req[r] EXCEPT !.wrote = @ \cup {output_name}],
                           <<output_name>>)
       IN  IF RotateRaises(req[r].reader[1].pages, angle)
           THEN /\ req' = [req EXCEPT ![r] = Reject(req[r], 500, "ValueError")]
                /\ UNCHANGED <<uploads, outputs>>
           ELSE /\ outputs' = Save(outputs, output_name,
                                   File(r, TRUE, Rotated(req[r].reader[1].pages, angle), <<>>))
                /\ uploads' = done.fs
                /\ req' = [req EXCEPT ![r] = done.q]
    /\ UNCHANGED <<clock, rt, xt>>

(* --------------------------- /api/cover-letter -------------------------- *)
\* data.get(field, '').strip()
StripStr(s) == IF s = " " THEN "" ELSE s

CoverForms ==
    {a \cup b \cup {<<"position", "Engineer">>} :
        a \in Forms("name", {" ", "Jane Doe"}), b \in Forms("company", {"Acme"})}

create_cover_letter_route(r) ==
    /\ req[r].pc = "idle"
    /\ \E form \in CoverForms :
         LET q == Received(r, "cover-letter", <<>>, form)
             name == StripStr(FormGet(form, "name", ""))
             position == StripStr(FormGet(form, "position", ""))
             company == StripStr(FormGet(form, "company", ""))
             output_name == Verbatim(FormGet(form, "output_name", "cover_letter.pdf"))
         IN  IF name = "" \/ position = "" \/ company = ""
             THEN /\ req' = [req EXCEPT ![r] =
                               Reject(q, 400, "Name, position, and company are required")]
                  /\ outputs' = outputs
             ELSE /\ outputs' = Save(outputs, output_name,
                                     File(r, TRUE, <<Page(r, 0, 1, <<>>)>>, <<>>))
                  /\ req' = [req EXCEPT ![r] =
                               Succeed([q EXCEPT !.wrote = @ \cup {output_name}],
                                       <<output_name>>)]
    /\ UNCHANGED <<uploads, clock, rt, xt>>

(* ------------------------- /api/download/<filename> --------------------- *)
DownloadNames == {Verbatim("merged.pdf"), Verbatim("nope.pdf")}

download_file(r) ==
    /\ req[r].pc = "idle"
    /\ \E filename \in DownloadNames :
         LET q == [Received(r, "download", <<>>, {}) EXCEPT !.result = <<filename>>]
         IN  req' = [req EXCEPT ![r] =
                       IF Exists(outputs, filename)
                       THEN [q EXCEPT !.pc = "done", !.status = 200]
                       ELSE Reject(q, 404, "File not found")]
    /\ UNCHANGED <<uploads, outputs, clock, rt, xt>>

(* --------------------------- the request server ------------------------- *)
Next ==
    \/ Tick
    \/ \E r \in Procs : merge_pdfs_route(r)
    \/ \E r \in Procs : merge_pdfs_read(r)
    \/ \E r \in Procs : merge_pdfs_write(r)
    \/ \E r \in Procs : add_watermark_route(r)
    \/ \E r \in Procs : add_watermark_read(r)
    \/ \E r \in Procs : add_watermark_write(r)
    \/ \E r \in Procs : extract_text_route(r)
    \/ \E r \in Procs : extract_text_read(r)
    \/ \E r \in Procs : extract_text_write(r)
    \/ \E r \in Procs : split_pdf_route(r)
    \/ \E r \in Procs : split_pdf_read(r)
    \/ \E r \in Procs : split_pdf_write(r)
    \/ \E r \in Procs : rotate_pdf_route(r)
    \/ \E r \in Procs : rotate_pdf_read(r)
    \/ \E r \in Procs : rotate_pdf_write(r)
    \/ \E r \in Procs : create_cover_letter_route(r)
    \/ \E r \in Procs : download_file(r)

Spec == Init /\ [][Next]_vars

(* -------------------- split, then merge of the parts -------------------- *)
\* PDFProcessor.split_pdf on a staged PDF of n pages, then
\* PDFProcessor.merge_pdfs on the paths split_pdf returned, in that order
InitRoundTrip ==
    /\ \E n \in 0..MaxSplitPages, k \in 1..MaxPerFile :
         /\ uploads = Save(EmptyFs, FnA, Bytes(1, 1, Part(FnA, TRUE, n)))
         /\ rt = [pc |-> "staged", original |-> Bytes(1, 1, Part(FnA, TRUE, n)).pages,
                  pages_per_file |-> k, files |-> <<>>]
    /\ outputs = EmptyFs
    /\ req = [r \in Procs |-> IdleReq]
    /\ clock = 0
    /\ xt = [pc |-> "off", filename |-> Verbatim(""), preview |-> <<>>]

rt_split ==
    /\ rt.pc = "staged"
    /\ LET q == ReadOne(uploads, [IdleReq EXCEPT !.op = "split", !.file_paths = <<FnA>>])
           done == SplitWrite(uploads, outputs, 1, q, rt.pages_per_file)
       IN  /\ uploads' = done.uploads
           /\ outputs' = done.outputs
           /\ rt' = [rt EXCEPT !.pc = "split", !.files = done.q.result]
    /\ UNCHANGED <<req, clock, xt>>

rt_merge ==
    /\ rt.pc = "split"
    /\ outputs' = RemoveExisting(
                      Save(outputs, Verbatim("merged.pdf"),
                           File(1, TRUE, MergedPages(AppendExisting(outputs, rt.files)), <<>>)),
                      rt.files)
    /\ rt' = [rt EXCEPT !.pc = "merged"]
    /\ UNCHANGED <<uploads, req, clock, xt>>

NextRoundTrip == rt_split \/ rt_merge

SpecRoundTrip == InitRoundTrip /\ [][NextRoundTrip]_vars

(* ------------------------ extract of a long text ------------------------ *)
\* page texts whose lengths put the full text below, at and above the
\* preview limit
TextLens == {0, 1, 483, 484, 983, 984, 985, 1200}

TextOf(len, seed) == [j \in 1..len |-> <<"x", "y", "z">>[((j + seed) % 3) + 1]]

TextLenLists == UNION {[1..n -> TextLens] : n \in 0..MaxTextPages}

InitExtract ==
    /\ \E lens \in TextLenLists :
         uploads = Save(EmptyFs, FnA,
                        File(1, TRUE,
                             [p \in 1..Len(lens) |-> Page(1, 1, p, TextOf(lens[p], p))], <<>>))
    /\ outputs = EmptyFs
    /\ req = [r \in Procs |-> IdleReq]
    /\ clock = 0
    /\ rt = [pc |-> "off", original |-> <<>>, pages_per_file |-> 1, files |-> <<>>]
    /\ xt = [pc |-> "staged", filename |-> Verbatim(""), preview |-> <<>>]

xt_extract ==
    /\ xt.pc = "staged"
    /\ LET q == ReadOne(uploads, [IdleReq EXCEPT !.op = "extract", !.file_paths = <<FnA>>])
           done == ExtractWrite(uploads, outputs, 1, q)
       IN  /\ uploads' = done.uploads
           /\ outputs' = done.outputs
           /\ xt' = [pc |-> "done", filename |-> done.q.result[1], preview |-> done.q.preview]
    /\ UNCHANGED <<req, clock, rt>>

NextExtract == xt_extract

SpecExtract == InitExtract /\ [][NextExtract]_vars

(* ------------------------------- properties ----------------------------- *)
FileOps == {"merge", "watermark", "extract", "split", "rotate"}
SingleFileOps == {"watermark", "extract", "split", "rotate"}

Done(r) == req[r].pc = "done"

\* the request handed its staged files to a PDFProcessor method
Transformed(r) ==
    Done(r) /\ req[r].op \in FileOps /\ req[r].file_paths # <<>> /\ req[r].status # 400

\* a file staged by request r is in the upload area
LeftBehind(r) == \E path \in DOMAIN uploads : uploads[path].by = r

\* the parts of a request whose filename passes the extension check
ValidParts(files) == SelectSeq(files, LAMBDA f : Truthy(f) /\ allowed_file(f.filename))

\* C1: once a request's files were staged and the transformation was invoked,
\* none of them is in the upload area when the request has finished, whether
\* the transformation succeeded or raised (a 500 answer).
C1_StagedInputDeleted == \A r \in Procs : Transformed(r) => ~LeftBehind(r)

\* C2: no two requests write the same path of the output area.
C2_ArtifactPathsDistinct ==
    \A r, s \in Procs : r # s => req[r].wrote \cap req[s].wrote = {}

\* C3: a single-file request whose filename has no extension or another one
\* than pdf is answered 400 "Valid PDF file required", whatever its other
\* form fields, and leaves nothing in the upload area.
C3_InvalidTypeRejected ==
    \A r \in Procs :
        (/\ Done(r)
         /\ req[r].op \in SingleFileOps
         /\ req[r].files # <<>>
         /\ ~allowed_file(req[r].files[1].filename))
        => (/\ req[r].status = 400
            /\ req[r].error = "Valid PDF file required"
            /\ ~LeftBehind(r))

\* the pages of the uploads of request r, in upload order
UploadedPages(r) ==
    Flatten([i \in 1..Len(req[r].files) |-> Bytes(r, i, req[r].files[i]).pages])

\* C4: a merge of N >= 2 valid PDF uploads answers with one artifact, the
\* pages of the uploads in upload order, and leaves none of its staged
\* inputs in the upload area.  Stated for a request served alone, so that
\* no other request's files are involved.
C4_MergeConcatenates ==
    \A r \in Procs :
        (/\ Done(r)
         /\ \A s \in Procs \ {r} : req[s].pc = "idle"
         /\ req[r].op = "merge"
         /\ Len(req[r].files) >= 2
         /\ \A i \in 1..Len(req[r].files) :
                req[r].files[i].ok /\ allowed_file(req[r].files[i].filename))
        => (/\ req[r].status = 200
            /\ Len(req[r].result) = 1
            /\ Exists(outputs, req[r].result[1])
            /\ outputs[req[r].result[1]].by = r
                  => outputs[req[r].result[1]].pages = UploadedPages(r)
            /\ ~LeftBehind(r))

\* C5: merging the parts split_pdf returned, in the order it returned them,
\* gives back the page sequence of the PDF that was split.
C5_SplitMergeRoundTrip ==
    rt.pc = "merged" =>
        /\ Exists(outputs, Verbatim("merged.pdf"))
        /\ outputs[Verbatim("merged.pdf")].pages = rt.original

C5_Witness ==
    /\ rt.pc = "merged"
    /\ Len(rt.files) >= 2
    /\ Len(rt.original) % rt.pages_per_file # 0
    /\ uploads = EmptyFs

\* the text file the extraction wrote
ExtractedText == outputs[xt.filename].text

\* C6 as stated: the preview is the first 1000 characters of the full text
\* when that is longer, the full text otherwise, and no ellipsis is added.
C6_PreviewNoEllipsis ==
    xt.pc = "done" =>
        xt.preview = IF Len(ExtractedText) > 1000
                     THEN SubSeq(ExtractedText, 1, 1000)
                     ELSE ExtractedText

\* C6 as amended: a full text of more than 1000 characters gives a preview of
\* 1003 characters, its first 1000 followed by "..."; a full text of at most
\* 1000 characters is its own preview.
C6_PreviewWithEllipsis ==
    xt.pc = "done" =>
        /\ Len(ExtractedText) <= 1000 => xt.preview = ExtractedText
        /\ Len(ExtractedText) > 1000 =>
              /\ Len(xt.preview) = 1003
              /\ \A i \in 1..1000 : xt.preview[i] = ExtractedText[i]
              /\ \A i \in 1001..1003 : xt.preview[i] = "."

C6_Witness ==
    /\ xt.pc = "done"
    /\ Len(ExtractedText) = 1001
    /\ Len(xt.preview) = 1003
    /\ ExtractedText[1001] # "."

\* C7: a transformation reads only files its own request staged.
C7_ConsumedOnceByOwner ==
    \A r \in Procs : \A i \in 1..Len(req[r].reader) : req[r].reader[i].by = r

\* C8: a request one of whose staged paths was gone when the transformation
\* started is answered with a 5xx status, never as a success, and reports
\* no artifact.
C8_VanishedInputFails ==
    \A r \in Procs :
        (Done(r) /\ req[r].vanished)
        => (req[r].status \in 500..599 /\ req[r].result = <<>>)

\* C9: a merge request with fewer than 2 files of an allowed extension is
\* answered 400 and none of its files is in the upload area.
C9_MergeValidatesBeforeStaging ==
    \A r \in Procs :
        (Done(r) /\ req[r].op = "merge" /\ Len(ValidParts(req[r].files)) < 2)
        => (req[r].status = 400 /\ ~LeftBehind(r))

\* the value of an integer form field is no integer, or none the operation
\* accepts (a pages-per-file count below 1, an angle other than 90/180/270)
BadParameter(q) ==
    \/ q.op = "split" /\ FormHas(q.form, "pages_per_file")
         /\ (IsInt(FormGet(q.form, "pages_per_file", "")) =>
                IntOf(FormGet(q.form, "pages_per_file", "")) < 1)
    \/ q.op = "rotate" /\ FormHas(q.form, "angle")
         /\ (IsInt(FormGet(q.form, "angle", "")) =>
                IntOf(FormGet(q.form, "angle", "")) \notin {90, 180, 270})

\* the request fails validation: no file part, a wrong file type, too few
\* merge inputs, a missing required field or an invalid parameter
ValidationFailure(q) ==
    \/ q.op \in FileOps /\ q.files = <<>>
    \/ q.op \in SingleFileOps /\ q.files # <<>> /\ ValidParts(q.files) = <<>>
    \/ q.op = "merge" /\ Len(ValidParts(q.files)) < 2
    \/ q.op = "cover-letter"
         /\ \E f \in {"name", "position", "company"} : StripStr(FormGet(q.form, f, "")) = ""
    \/ BadParameter(q)

\* C10: a validation failure is answered with a 4xx status and never 500, a
\* failed transformation with a 5xx status and never a success envelope, a
\* download of an absent filename with 404.
C10_StatusMapping ==
    \A r \in Procs :
        Done(r) =>
            /\ ValidationFailure(req[r]) => req[r].status \in 400..499
            /\ req[r].error \in {"PdfReadError", "FileNotFoundError"}
                  => req[r].status \in 500..599
            /\ req[r].error = "File not found" <=> req[r].status = 404

\* C11: a split of a PDF of n >= 1 pages by k >= 1 pages per file writes
\* exactly ceil(n/k) artifacts; the i-th holds the pages (i-1)*k+1 ..
\* min(i*k, n) of the input in order, so only the last may hold fewer than
\* k, and its filename is split_pages_<first>-<last>, that 1-based range.
C11_SplitChunks ==
    (rt.pc = "split" /\ Len(rt.original) >= 1) =>
        LET n == Len(rt.original)
            k == rt.pages_per_file
            count == (n + k - 1) \div k
        IN  /\ Len(rt.files) = count
            /\ Cardinality(DOMAIN outputs) = count
            /\ \A i \in 1..Len(rt.files) :
                  LET first == (i - 1) * k + 1
                      last == IF i * k < n THEN i * k ELSE n
                  IN  /\ Exists(outputs, rt.files[i])
                      /\ outputs[rt.files[i]].pages =
                            [j \in 1..(last - first + 1) |-> rt.original[first + j - 1]]
                      /\ (i < count => Len(outputs[rt.files[i]].pages) = k)
                      /\ rt.files[i].base.word = "split_pages"
                      /\ rt.files[i].base.lo = first
                      /\ rt.files[i].base.hi = last
                      /\ rt.files[i].ext = ".pdf"

C11_Witness ==
    /\ rt.pc = "split"
    /\ rt.pages_per_file >= 2
    /\ Len(rt.files) >= 3
    /\ Len(outputs[rt.files[Len(rt.files)]].pages) < rt.pages_per_file
    /\ rt.files[2].base.lo = rt.pages_per_file + 1

====
